---- MODULE Spec2Model ----
(***************************************************************************)
(* Piece table with a branching edit history (undo / hot redo).            *)
(* Model of src/src/piece_table.rs, src/src/history.rs and the value types *)
(* below them.  Texts are sequences of characters, indices are 0-based as  *)
(* in the source (a Vec element i is the sequence element i + 1).          *)
(***************************************************************************)
EXTENDS Integers, Sequences, FiniteSets, TLC

\* ------------------------------------------------------------------ bounds
\* Longest initial document.
MaxOriginal == 5
\* Largest number of entries in the history arena (root included).
MaxEntries == 3

\* Characters of the initial documents.
Alphabet == <<"a", "b", "c", "d", "e", "f">>
\* Initial documents: the empty one and one of MaxOriginal characters.
OriginalTexts == {<<>>, SubSeq(Alphabet, 1, MaxOriginal)}
\* Texts handed to insert / append (the empty one is refused).
Strings == {<<>>, <<"x">>, <<"y", "z">>}

\* Width of usize in bits, and the largest usize.
UsizeBits == 5
UsizeMax == 2^UsizeBits - 1

\* usize arithmetic without overflow checks wraps around.
Wrap(x) == x % (UsizeMax + 1)

\* Option<usize>::None
None == -1

\* ------------------------------------------------------------- Vec helpers
VecInsert(v, i, x) == SubSeq(v, 1, i) \o <<x>> \o SubSeq(v, i + 1, Len(v))
VecRemove(v, i) == SubSeq(v, 1, i) \o SubSeq(v, i + 2, Len(v))

\* ------------------------------------------------------------- value types
Piece_new(source, offset, length) ==
  [source |-> source, offset |-> offset, length |-> length]

Change_new(pos, piece, typ) == [pos |-> pos, piece |-> piece, typ |-> typ]

Commit_new == <<>>

add_change(commit, pos, piece, typ) == Append(commit, Change_new(pos, piece, typ))

Entry_new(commit) ==
  [previous |-> None, next |-> <<>>, hot_path |-> None, commit |-> commit]

\* ----------------------------------------------------------------- History
History_new(commit) == [changes |-> <<Entry_new(commit)>>, head |-> 0]

\* (mutant) the new entry is not listed among the children of its parent.
History_save_NoChild(h, commit) ==
  IF h.changes = <<>> \/ ~(h.head < Len(h.changes))
  THEN [history |-> h, panicked |-> TRUE]
  ELSE LET prev_head == h.head
           new_head == Len(h.changes)
           entry == [Entry_new(commit) EXCEPT !.previous = prev_head]
       IN [history |-> [changes |-> Append(h.changes, entry), head |-> new_head],
           panicked |-> FALSE]

\* (mutant) a linear undo stack: the entries after the head are dropped.
History_save_Truncate(h, commit) ==
  IF h.changes = <<>> \/ ~(h.head < Len(h.changes))
  THEN [history |-> h, panicked |-> TRUE]
  ELSE LET prev_head == h.head
           kept == SubSeq(h.changes, 1, prev_head + 1)
           new_head == Len(kept)
           pushed == [kept EXCEPT ![prev_head + 1].next = <<new_head>>]
           entry == [Entry_new(commit) EXCEPT !.previous = prev_head]
       IN [history |-> [changes |-> Append(pushed, entry), head |-> new_head],
           panicked |-> FALSE]

\* A panicking call keeps whatever it had already written.
\* (mutant) save makes the new entry the hot child of its parent.
History_save_SetsHot(h, commit) ==
  IF h.changes = <<>> \/ ~(h.head < Len(h.changes))
  THEN [history |-> h, panicked |-> TRUE]
  ELSE LET prev_head == h.head
           new_head == Len(h.changes)
           pushed == [h.changes EXCEPT ![prev_head + 1].next = Append(@, new_head),
                                       ![prev_head + 1].hot_path = new_head]
           entry == [Entry_new(commit) EXCEPT !.previous = prev_head]
       IN [history |-> [changes |-> Append(pushed, entry), head |-> new_head],
           panicked |-> FALSE]

History_save(h, commit) ==
  IF h.changes = <<>> \/ ~(h.head < Len(h.changes))
  THEN [history |-> h, panicked |-> TRUE]
  ELSE LET prev_head == h.head
           new_head == Len(h.changes)
           pushed == [h.changes EXCEPT ![prev_head + 1].next = Append(@, new_head)]
           entry == [Entry_new(commit) EXCEPT !.previous = prev_head]
       IN [history |-> [changes |-> Append(pushed, entry), head |-> new_head],
           panicked |-> FALSE]

\* (mutant) the hot pointer set to the oldest child of the new head.
UndoHotPath_Oldest(h, prev_head) ==
  h.changes[h.changes[prev_head + 1].previous + 1].next[1]

\* (mutant) undo leaves no hot pointer.
UndoHotPath_None(h, prev_head) == None

\* (mutant) the hot pointer set to the entry undo moves to.
UndoHotPath_Self(h, prev_head) == h.changes[prev_head + 1].previous

\* The hot pointer written by undo: the entry that was just left.
UndoHotPath(h, prev_head) == prev_head

\* (mutant) an undo at the root marks the root as its own hot child.
History_undo_RootHot(h) ==
  IF h.changes = <<>> \/ ~(h.head < Len(h.changes))
  THEN [history |-> h, some |-> FALSE, commit |-> <<>>, panicked |-> TRUE]
  ELSE LET prev_head == h.head
           previous == h.changes[prev_head + 1].previous
       IN IF previous = None
          THEN [history |-> [h EXCEPT !.changes[prev_head + 1].hot_path = prev_head],
                some |-> FALSE, commit |-> <<>>, panicked |-> FALSE]
          ELSE IF ~(previous < Len(h.changes))
          THEN [history |-> [h EXCEPT !.head = previous], some |-> FALSE,
                commit |-> <<>>, panicked |-> TRUE]
          ELSE [history |->
                  [changes |-> [h.changes EXCEPT
                                  ![previous + 1].hot_path = UndoHotPath(h, prev_head)],
                   head |-> previous],
                some |-> TRUE,
                commit |-> h.changes[prev_head + 1].commit,
                panicked |-> FALSE]

History_undo(h) ==
  IF h.changes = <<>> \/ ~(h.head < Len(h.changes))
  THEN [history |-> h, some |-> FALSE, commit |-> <<>>, panicked |-> TRUE]
  ELSE LET prev_head == h.head
           previous == h.changes[prev_head + 1].previous
       IN IF previous = None
          THEN [history |-> h, some |-> FALSE, commit |-> <<>>, panicked |-> FALSE]
          ELSE IF ~(previous < Len(h.changes))
          THEN [history |-> [h EXCEPT !.head = previous], some |-> FALSE,
                commit |-> <<>>, panicked |-> TRUE]
          ELSE [history |->
                  [changes |-> [h.changes EXCEPT
                                  ![previous + 1].hot_path = UndoHotPath(h, prev_head)],
                   head |-> previous],
                some |-> TRUE,
                commit |-> h.changes[prev_head + 1].commit,
                panicked |-> FALSE]

Contains(v, x) == \E i \in 1..Len(v) : v[i] = x

\* (mutant) hot_redo hands out the commit of the hot child but leaves head.
History_hot_redo_Stay(h) ==
  IF h.changes = <<>> \/ ~(h.head < Len(h.changes))
  THEN [history |-> h, some |-> FALSE, commit |-> <<>>, panicked |-> TRUE]
  ELSE LET hot_head == h.changes[h.head + 1].hot_path
       IN IF hot_head = None
          THEN [history |-> h, some |-> FALSE, commit |-> <<>>, panicked |-> FALSE]
          ELSE IF ~(hot_head < Len(h.changes))
                  \/ ~Contains(h.changes[h.head + 1].next, hot_head)
          THEN [history |-> h, some |-> FALSE, commit |-> <<>>, panicked |-> TRUE]
          ELSE [history |-> h,
                some |-> TRUE,
                commit |-> h.changes[hot_head + 1].commit,
                panicked |-> FALSE]

History_hot_redo(h) ==
  IF h.changes = <<>> \/ ~(h.head < Len(h.changes))
  THEN [history |-> h, some |-> FALSE, commit |-> <<>>, panicked |-> TRUE]
  ELSE LET hot_head == h.changes[h.head + 1].hot_path
       IN IF hot_head = None
          THEN [history |-> h, some |-> FALSE, commit |-> <<>>, panicked |-> FALSE]
          ELSE IF ~(hot_head < Len(h.changes))
                  \/ ~Contains(h.changes[h.head + 1].next, hot_head)
          THEN [history |-> h, some |-> FALSE, commit |-> <<>>, panicked |-> TRUE]
          ELSE [history |-> [h EXCEPT !.head = hot_head],
                some |-> TRUE,
                commit |-> h.changes[hot_head + 1].commit,
                panicked |-> FALSE]

\* -------------------------------------------------------------- PieceTable
Ok(t) == [table |-> t, panicked |-> FALSE]
Panic(t) == [table |-> t, panicked |-> TRUE]

\* (mutant) an empty text still gets a piece.
from_AlwaysPiece(string) ==
  [original |-> string,
   addition |-> <<>>,
   pieces |-> <<Piece_new("Original", 0, Len(string))>>,
   total_length |-> Len(string),
   history |-> History_new(Commit_new)]

from(string) ==
  [original |-> string,
   addition |-> <<>>,
   pieces |-> IF string # <<>>
              THEN <<Piece_new("Original", 0, Len(string))>>
              ELSE <<>>,
   total_length |-> Len(string),
   history |-> History_new(Commit_new)]

\* self.history.save(commit) at the end of insert and remove
SaveCommit(t, commit) ==
  LET s == History_save(t.history, commit)
  IN [table |-> [t EXCEPT !.history = s.history], panicked |-> s.panicked]

\* -- insert ---------------------------------------------------------------
\* (mutant) the position is not checked.
InsertGuard_NoPos(t, pos, string) == string # <<>>

InsertGuard(t, pos, string) == pos <= t.total_length /\ string # <<>>

\* The new piece points at the text appended to the addition log.
InsertPiece(t, string) == Piece_new("Addition", Len(t.addition), Len(string))

\* (mutant) the text is appended but the length is not updated.
InsertGrow_NoLength(t, string) == [t EXCEPT !.addition = @ \o string]

\* (mutant) the text is put at the front of the addition log.
InsertGrow_Front(t, string) ==
  [t EXCEPT !.total_length = @ + Len(string), !.addition = string \o @]

\* total_length += string.len(); addition.push_str(string)
InsertGrow(t, string) ==
  [t EXCEPT !.total_length = @ + Len(string), !.addition = @ \o string]

\* (mutant) the new piece always goes to the front.
InsertSpecialIdx_Front(ps, pos) == 0

\* Index of the new piece on the fast path.
InsertSpecialIdx(ps, pos) == IF pos = 0 THEN 0 ELSE Len(ps)

\* (mutant) a piece that ends at pos is taken to hold it.
RECURSIVE InsertScan_Strict(_, _, _, _)
InsertScan_Strict(ps, i, len, pos) ==
  IF i >= Len(ps)
  THEN [idx |-> 0, pos |-> pos]
  ELSE IF len + ps[i + 1].length < pos
       THEN InsertScan_Strict(ps, i + 1, len + ps[i + 1].length, pos)
       ELSE [idx |-> i, pos |-> pos - len]

\* The scan for the piece that holds pos; without a break idx and pos keep
\* their initial values.
RECURSIVE InsertScan(_, _, _, _)
InsertScan(ps, i, len, pos) ==
  IF i >= Len(ps)
  THEN [idx |-> 0, pos |-> pos]
  ELSE IF len + ps[i + 1].length <= pos
       THEN InsertScan(ps, i + 1, len + ps[i + 1].length, pos)
       ELSE [idx |-> i, pos |-> pos - len]

\* (mutant) the trailing part keeps the length of the whole piece.
SplitTrailing_WholeLength(old_piece, pos) ==
  Piece_new(old_piece.source, old_piece.offset + pos, old_piece.length)

\* The part of a split piece that follows the insertion point.
SplitTrailing(old_piece, pos) ==
  Piece_new(old_piece.source, old_piece.offset + pos, old_piece.length - pos)

\* (mutant) the split piece keeps its length.
SplitLeading_KeepLength(old_piece, pos) == old_piece

\* The part of a split piece that precedes the insertion point.
SplitLeading(old_piece, pos) == [old_piece EXCEPT !.length = pos]

\* (mutant) the deletion of the split piece is recorded one index too far.
SplitCommit_WrongPos(idx, old_piece, leading, piece, trailing) ==
  add_change(
    add_change(
      add_change(
        add_change(Commit_new, idx + 1, old_piece, "Deletion"),
        idx, leading, "Insertion"),
      idx + 1, piece, "Insertion"),
    idx + 2, trailing, "Insertion")

\* (mutant) the Insertion of the shrunk piece is recorded before the
\* Deletion of the old one.
SplitCommit_InsertionFirst(idx, old_piece, leading, piece, trailing) ==
  add_change(
    add_change(
      add_change(
        add_change(Commit_new, idx, leading, "Insertion"),
        idx, old_piece, "Deletion"),
      idx + 1, piece, "Insertion"),
    idx + 2, trailing, "Insertion")

\* The changes recorded for a split, in recording order.
SplitCommit(idx, old_piece, leading, piece, trailing) ==
  add_change(
    add_change(
      add_change(
        add_change(Commit_new, idx, old_piece, "Deletion"),
        idx, leading, "Insertion"),
      idx + 1, piece, "Insertion"),
    idx + 2, trailing, "Insertion")

insert(t, pos, string) ==
  IF ~InsertGuard(t, pos, string)
  THEN Panic(t)
  ELSE
    LET special_case == pos = 0 \/ pos = t.total_length
        piece == InsertPiece(t, string)
        t1 == InsertGrow(t, string)
    IN IF special_case
       THEN LET idx == InsertSpecialIdx(t1.pieces, pos)
            IN SaveCommit([t1 EXCEPT !.pieces = VecInsert(@, idx, piece)],
                          add_change(Commit_new, idx, piece, "Insertion"))
       ELSE LET sc == InsertScan(t1.pieces, 0, 0, pos)
                idx == sc.idx
                p == sc.pos
            IN IF p = 0
               THEN IF idx > Len(t1.pieces)
                    THEN Panic(t1)
                    ELSE SaveCommit([t1 EXCEPT !.pieces = VecInsert(@, idx, piece)],
                                    add_change(Commit_new, idx, piece, "Insertion"))
               ELSE IF idx >= Len(t1.pieces) \/ t1.pieces[idx + 1].length < p
                    THEN Panic(t1) \* index out of bounds / subtraction overflow
                    ELSE LET old_piece == t1.pieces[idx + 1]
                             trailing == SplitTrailing(old_piece, p)
                             leading == SplitLeading(old_piece, p)
                             ps1 == [t1.pieces EXCEPT ![idx + 1] = leading]
                             ps2 == VecInsert(ps1, idx + 1, piece)
                             ps3 == VecInsert(ps2, idx + 2, trailing)
                         IN SaveCommit([t1 EXCEPT !.pieces = ps3],
                                       SplitCommit(idx, old_piece, leading,
                                                   piece, trailing))

\* (mutant) the text is put in at the start.
append_Front(t, string) == insert(t, 0, string)

append(t, string) == insert(t, t.total_length, string)

\* -- remove ---------------------------------------------------------------
\* The arithmetic of remove is usize arithmetic: with overflow checks (the
\* dev profile, checks = TRUE) an overflow panics, without them (the release
\* profile, checks = FALSE) the result wraps around.

\* let end = pos + n
RemoveEnd(pos, n) == Wrap(pos + n)

RemoveGuard(t, end, n) == end <= t.total_length /\ n # 0

\* enum Remove { End(Index, Length), Full(Index), Start(Index, Length),
\*               Slice(Index, Offset) }
Remove_new(kind, idx, arg) == [kind |-> kind, idx |-> idx, arg |-> arg]

\* (mutant) a piece that begins exactly at pos does not count as begun
\* inside the range.
RemoveClassify_StrictStart(idx, prev_len, len, pos, end) ==
  LET remove_start == pos < prev_len
      remove_end == end >= len /\ len > pos
      remove_slice == prev_len < pos /\ end < len
  IN IF ~remove_start /\ remove_end THEN <<Remove_new("End", idx, len - pos)>>
     ELSE IF remove_start /\ remove_end THEN <<Remove_new("Full", idx, 0)>>
     ELSE IF remove_start /\ ~remove_end
          THEN <<Remove_new("Start", idx, end - prev_len)>>
     ELSE IF remove_slice THEN <<Remove_new("Slice", idx, pos - prev_len)>>
     ELSE <<>>

\* The match of one piece spanning [prev_len, len) against [pos, end):
\* the classifications pushed for it (none or one).
RemoveClassify(idx, prev_len, len, pos, end) ==
  LET remove_start == pos <= prev_len
      remove_end == end >= len /\ len > pos
      remove_slice == prev_len < pos /\ end < len
  IN IF ~remove_start /\ remove_end THEN <<Remove_new("End", idx, len - pos)>>
     ELSE IF remove_start /\ remove_end THEN <<Remove_new("Full", idx, 0)>>
     ELSE IF remove_start /\ ~remove_end
          THEN <<Remove_new("Start", idx, end - prev_len)>>
     ELSE IF remove_slice THEN <<Remove_new("Slice", idx, pos - prev_len)>>
     ELSE <<>>

\* (mutant) the scan does not stop at the end of the range.
RECURSIVE RemoveScan_NoBreak(_, _, _, _, _)
RemoveScan_NoBreak(ps, idx, len, pos, end) ==
  IF idx >= Len(ps)
  THEN <<>>
  ELSE LET prev_len == len
           new_len == len + ps[idx + 1].length
       IN RemoveClassify(idx, prev_len, new_len, pos, end)
            \o RemoveScan_NoBreak(ps, idx + 1, new_len, pos, end)

RECURSIVE RemoveScan(_, _, _, _, _)
RemoveScan(ps, idx, len, pos, end) ==
  IF idx >= Len(ps) \/ len >= end
  THEN <<>>
  ELSE LET prev_len == len
           new_len == len + ps[idx + 1].length
       IN RemoveClassify(idx, prev_len, new_len, pos, end)
            \o RemoveScan(ps, idx + 1, new_len, pos, end)

\* End(idx, len): the piece keeps its head.
RemoveEndPiece(old_piece, len) == [old_piece EXCEPT !.length = Wrap(@ - len)]

\* (mutant) the piece is shortened but its offset is not advanced.
RemoveStartPiece_NoOffset(old_piece, len) ==
  [old_piece EXCEPT !.length = Wrap(@ - len)]

\* Start(idx, len): the piece keeps its tail.
RemoveStartPiece(old_piece, len) ==
  [old_piece EXCEPT !.length = Wrap(@ - len), !.offset = Wrap(@ + len)]

\* Slice(idx, offset): the two remainders of the piece.
RemoveSliceLeading(old_piece, offset) ==
  Piece_new(old_piece.source, old_piece.offset, offset)

RemoveSliceTrailing(old_piece, offset, n) ==
  Piece_new(old_piece.source, Wrap(offset + n),
            Wrap(old_piece.length - offset - n))

\* One arm of the match in the application loop, on the pair
\* (pieces, commit); an index out of range panics, and so does an overflow
\* when checks is set.
RemoveArm(acc, r, n, checks) ==
  LET ps == acc.pieces
      commit == acc.commit
      idx == r.idx
  IN IF acc.panicked \/ idx >= Len(ps)
     THEN [acc EXCEPT !.panicked = TRUE]
     ELSE
       LET old_piece == ps[idx + 1]
       IN CASE r.kind = "End" ->
                 IF checks /\ old_piece.length < r.arg
                 THEN [acc EXCEPT !.panicked = TRUE]
                 ELSE LET new_piece == RemoveEndPiece(old_piece, r.arg)
                      IN [pieces |-> [ps EXCEPT ![idx + 1] = new_piece],
                          commit |-> add_change(
                                       add_change(commit, idx, old_piece, "Deletion"),
                                       idx, new_piece, "Insertion"),
                          panicked |-> FALSE]
            [] r.kind = "Full" ->
                 [pieces |-> VecRemove(ps, idx),
                  commit |-> add_change(commit, idx, old_piece, "Deletion"),
                  panicked |-> FALSE]
            [] r.kind = "Start" ->
                 IF checks /\ (old_piece.length < r.arg
                                \/ old_piece.offset + r.arg > UsizeMax)
                 THEN [acc EXCEPT !.panicked = TRUE]
                 ELSE LET new_piece == RemoveStartPiece(old_piece, r.arg)
                      IN [pieces |-> [ps EXCEPT ![idx + 1] = new_piece],
                          commit |-> add_change(
                                       add_change(commit, idx, old_piece, "Deletion"),
                                       idx, new_piece, "Insertion"),
                          panicked |-> FALSE]
            [] OTHER ->
                 IF checks /\ (old_piece.length < r.arg + n
                                \/ r.arg + n > UsizeMax)
                 THEN [acc EXCEPT !.panicked = TRUE]
                 ELSE LET leading == RemoveSliceLeading(old_piece, r.arg)
                          trailing == RemoveSliceTrailing(old_piece, r.arg, n)
                          ps1 == [ps EXCEPT ![idx + 1] = leading]
                      IN [pieces |-> VecInsert(ps1, idx + 1, trailing),
                          commit |-> add_change(
                                       add_change(
                                         add_change(commit, idx, old_piece, "Deletion"),
                                         idx, leading, "Insertion"),
                                       idx + 1, trailing, "Insertion"),
                          panicked |-> FALSE]

\* for remove_piece in remove.iter().rev(): k runs from Len(rem) down to 1.
RECURSIVE RemoveApply(_, _, _, _, _)
RemoveApply(acc, rem, k, n, checks) ==
  IF k = 0 \/ acc.panicked
  THEN acc
  ELSE RemoveApply(RemoveArm(acc, rem[k], n, checks), rem, k - 1, n, checks)

\* remove as compiled with (checks) or without overflow checks.
remove_with(checks, t, pos, n) ==
  IF checks /\ pos + n > UsizeMax
  THEN Panic(t)
  ELSE
    LET end == RemoveEnd(pos, n)
    IN IF ~RemoveGuard(t, end, n)
       THEN Panic(t)
       ELSE
         LET rem == RemoveScan(t.pieces, 0, 0, pos, end)
         IN IF checks /\ t.total_length < n
            THEN Panic(t)
            ELSE
              LET t1 == [t EXCEPT !.total_length = Wrap(@ - n)]
                  res == RemoveApply([pieces |-> t1.pieces, commit |-> Commit_new,
                                      panicked |-> FALSE],
                                     rem, Len(rem), n, checks)
                  t2 == [t1 EXCEPT !.pieces = res.pieces]
              IN IF res.panicked THEN Panic(t2) ELSE SaveCommit(t2, res.commit)

\* The dev profile: overflow checks on.
remove(t, pos, n) == remove_with(TRUE, t, pos, n)

\* The release profile: overflow checks off.
remove_release(t, pos, n) == remove_with(FALSE, t, pos, n)

\* -- undo / hot_redo ------------------------------------------------------
\* (mutant) a piece that ends exactly at the end of its log is refused.
ChangeInBounds_Strict(t, change) ==
  IF change.piece.source = "Original"
  THEN change.piece.offset + change.piece.length < Len(t.original)
  ELSE change.piece.offset + change.piece.length < Len(t.addition)

\* The bounds assertion on the piece of a replayed change.
ChangeInBounds(t, change) ==
  IF change.piece.source = "Original"
  THEN change.piece.offset + change.piece.length <= Len(t.original)
  ELSE change.piece.offset + change.piece.length <= Len(t.addition)

\* (mutant) an undone deletion forgets to lengthen the document.
UndoChange_NoLength(t, change) ==
  IF ~ChangeInBounds(t, change)
  THEN Panic(t)
  ELSE IF change.typ = "Deletion"
       THEN IF ~(change.pos <= Len(t.pieces))
            THEN Panic(t)
            ELSE Ok([t EXCEPT !.pieces = VecInsert(@, change.pos, change.piece)])
       ELSE IF ~(change.pos < Len(t.pieces))
            THEN Panic(t)
            ELSE Ok([t EXCEPT !.pieces = VecRemove(@, change.pos),
                              !.total_length = @ - t.pieces[change.pos + 1].length])

\* One iteration of the replay loop of undo.
UndoChange(t, change) ==
  IF ~ChangeInBounds(t, change)
  THEN Panic(t)
  ELSE IF change.typ = "Deletion"
       THEN IF ~(change.pos <= Len(t.pieces))
            THEN Panic(t)
            ELSE Ok([t EXCEPT !.pieces = VecInsert(@, change.pos, change.piece),
                              !.total_length = @ + change.piece.length])
       ELSE IF ~(change.pos < Len(t.pieces))
            THEN Panic(t)
            ELSE Ok([t EXCEPT !.pieces = VecRemove(@, change.pos),
                              !.total_length = @ - t.pieces[change.pos + 1].length])

\* (mutant) the changes are undone in recording order.
RECURSIVE UndoReplay_Forward(_, _, _)
UndoReplay_Forward(r, changes, k) ==
  IF k = 0 \/ r.panicked
  THEN r
  ELSE UndoReplay_Forward(UndoChange(r.table, changes[Len(changes) - k + 1]),
                          changes, k - 1)

\* for change in commit.changes.iter().rev(): k runs from Len down to 1.
RECURSIVE UndoReplay(_, _, _)
UndoReplay(r, changes, k) ==
  IF k = 0 \/ r.panicked
  THEN r
  ELSE UndoReplay(UndoChange(r.table, changes[k]), changes, k - 1)

undo(t) ==
  LET h == History_undo(t.history)
      t1 == [t EXCEPT !.history = h.history]
  IN IF h.panicked THEN Panic(t1)
     ELSE IF ~h.some THEN Ok(t1)
     ELSE UndoReplay(Ok(t1), h.commit, Len(h.commit))

\* (mutant) a redone deletion forgets to shorten the document.
RedoChange_NoLength(t, change) ==
  IF ~ChangeInBounds(t, change)
  THEN Panic(t)
  ELSE IF change.typ = "Deletion"
       THEN IF ~(change.pos < Len(t.pieces))
            THEN Panic(t)
            ELSE Ok([t EXCEPT !.pieces = VecRemove(@, change.pos)])
       ELSE IF ~(change.pos <= Len(t.pieces))
            THEN Panic(t)
            ELSE Ok([t EXCEPT !.pieces = VecInsert(@, change.pos, change.piece),
                              !.total_length = @ + change.piece.length])

\* One iteration of the replay loop of hot_redo.
RedoChange(t, change) ==
  IF ~ChangeInBounds(t, change)
  THEN Panic(t)
  ELSE IF change.typ = "Deletion"
       THEN IF ~(change.pos < Len(t.pieces))
            THEN Panic(t)
            ELSE Ok([t EXCEPT !.pieces = VecRemove(@, change.pos),
                              !.total_length = @ - t.pieces[change.pos + 1].length])
       ELSE IF ~(change.pos <= Len(t.pieces))
            THEN Panic(t)
            ELSE Ok([t EXCEPT !.pieces = VecInsert(@, change.pos, change.piece),
                              !.total_length = @ + change.piece.length])

\* (mutant) the changes are redone in reverse recording order.
RECURSIVE RedoReplay_Reverse(_, _, _)
RedoReplay_Reverse(r, changes, k) ==
  IF k > Len(changes) \/ r.panicked
  THEN r
  ELSE RedoReplay_Reverse(RedoChange(r.table, changes[Len(changes) - k + 1]),
                          changes, k + 1)

\* for change in &commit.changes: k runs from 1 up to Len.
RECURSIVE RedoReplay(_, _, _)
RedoReplay(r, changes, k) ==
  IF k > Len(changes) \/ r.panicked
  THEN r
  ELSE RedoReplay(RedoChange(r.table, changes[k]), changes, k + 1)

\* (mutant) without a hot child the commit of the head is replayed again.
hot_redo_ReplayHead(t) ==
  LET h == History_hot_redo(t.history)
      t1 == [t EXCEPT !.history = h.history]
  IN IF h.panicked THEN Panic(t1)
     ELSE IF ~h.some
          THEN RedoReplay(Ok(t1), t.history.changes[t.history.head + 1].commit, 1)
     ELSE RedoReplay(Ok(t1), h.commit, 1)

hot_redo(t) ==
  LET h == History_hot_redo(t.history)
      t1 == [t EXCEPT !.history = h.history]
  IN IF h.panicked THEN Panic(t1)
     ELSE IF ~h.some THEN Ok(t1)
     ELSE RedoReplay(Ok(t1), h.commit, 1)

\* -- undo / hot_redo without overflow checks ------------------------------
\* The bounds assertion of the release profile: offset + length wraps.
ChangeInBounds_release(t, change) ==
  IF change.piece.source = "Original"
  THEN Wrap(change.piece.offset + change.piece.length) <= Len(t.original)
  ELSE Wrap(change.piece.offset + change.piece.length) <= Len(t.addition)

UndoChange_release(t, change) ==
  IF ~ChangeInBounds_release(t, change)
  THEN Panic(t)
  ELSE IF change.typ = "Deletion"
       THEN IF ~(change.pos <= Len(t.pieces))
            THEN Panic(t)
            ELSE Ok([t EXCEPT !.pieces = VecInsert(@, change.pos, change.piece),
                              !.total_length = Wrap(@ + change.piece.length)])
       ELSE IF ~(change.pos < Len(t.pieces))
            THEN Panic(t)
            ELSE Ok([t EXCEPT !.pieces = VecRemove(@, change.pos),
                              !.total_length =
                                Wrap(@ - t.pieces[change.pos + 1].length)])

RECURSIVE UndoReplay_release(_, _, _)
UndoReplay_release(r, changes, k) ==
  IF k = 0 \/ r.panicked
  THEN r
  ELSE UndoReplay_release(UndoChange_release(r.table, changes[k]), changes, k - 1)

undo_release(t) ==
  LET h == History_undo(t.history)
      t1 == [t EXCEPT !.history = h.history]
  IN IF h.panicked THEN Panic(t1)
     ELSE IF ~h.some THEN Ok(t1)
     ELSE UndoReplay_release(Ok(t1), h.commit, Len(h.commit))

RedoChange_release(t, change) ==
  IF ~ChangeInBounds_release(t, change)
  THEN Panic(t)
  ELSE IF change.typ = "Deletion"
       THEN IF ~(change.pos < Len(t.pieces))
            THEN Panic(t)
            ELSE Ok([t EXCEPT !.pieces = VecRemove(@, change.pos),
                              !.total_length =
                                Wrap(@ - t.pieces[change.pos + 1].length)])
       ELSE IF ~(change.pos <= Len(t.pieces))
            THEN Panic(t)
            ELSE Ok([t EXCEPT !.pieces = VecInsert(@, change.pos, change.piece),
                              !.total_length = Wrap(@ + change.piece.length)])

RECURSIVE RedoReplay_release(_, _, _)
RedoReplay_release(r, changes, k) ==
  IF k > Len(changes) \/ r.panicked
  THEN r
  ELSE RedoReplay_release(RedoChange_release(r.table, changes[k]), changes, k + 1)

hot_redo_release(t) ==
  LET h == History_hot_redo(t.history)
      t1 == [t EXCEPT !.history = h.history]
  IN IF h.panicked THEN Panic(t1)
     ELSE IF ~h.some THEN Ok(t1)
     ELSE RedoReplay_release(Ok(t1), h.commit, 1)

\* -- _slice / to_string ---------------------------------------------------
\* (mutant) the upper bound is not checked against the length.
SliceGuard_NoUpper(t, lower, upper) == lower < upper

SliceGuard(t, lower, upper) == lower < upper /\ upper <= t.total_length

Source(t, piece) == IF piece.source = "Original" THEN t.original ELSE t.addition

\* (mutant) a piece cut by the lower bound is read from the start of its log.
SliceCapture_NoOffset(piece, prev_len, len, lower, upper) ==
  LET capture_start == lower <= prev_len
      capture_end == upper >= len /\ len > lower
      capture_slice == prev_len < lower /\ upper < len
  IN IF ~capture_start /\ capture_end
     THEN <<[start |-> lower - prev_len, end |-> piece.length]>>
     ELSE IF capture_start /\ capture_end
     THEN <<[start |-> piece.offset, end |-> piece.offset + piece.length]>>
     ELSE IF capture_start /\ ~capture_end
     THEN <<[start |-> piece.offset, end |-> piece.offset + (upper - prev_len)]>>
     ELSE IF capture_slice
     THEN <<[start |-> piece.offset + (lower - prev_len),
             end |-> piece.offset + (upper - prev_len)]>>
     ELSE <<>>

\* The byte range [start, end) of its log that one piece spanning
\* [prev_len, len) contributes to slice(lower, upper); none when no arm
\* of the match fires.
SliceCapture(piece, prev_len, len, lower, upper) ==
  LET capture_start == lower <= prev_len
      capture_end == upper >= len /\ len > lower
      capture_slice == prev_len < lower /\ upper < len
  IN IF ~capture_start /\ capture_end
     THEN <<[start |-> piece.offset + (lower - prev_len),
             end |-> piece.offset + piece.length]>>
     ELSE IF capture_start /\ capture_end
     THEN <<[start |-> piece.offset, end |-> piece.offset + piece.length]>>
     ELSE IF capture_start /\ ~capture_end
     THEN <<[start |-> piece.offset, end |-> piece.offset + (upper - prev_len)]>>
     ELSE IF capture_slice
     THEN <<[start |-> piece.offset + (lower - prev_len),
             end |-> piece.offset + (upper - prev_len)]>>
     ELSE <<>>

\* out.push_str(&source[start..end]); a range outside the log panics.
PushStr(acc, source, range) ==
  IF range = <<>>
  THEN acc
  ELSE IF range[1].start > range[1].end \/ range[1].end > Len(source)
       THEN [acc EXCEPT !.panicked = TRUE]
       ELSE [acc EXCEPT !.out = @ \o SubSeq(source, range[1].start + 1, range[1].end)]

RECURSIVE SliceScan(_, _, _, _, _, _)
SliceScan(t, i, len, lower, upper, acc) ==
  IF i >= Len(t.pieces) \/ len >= upper \/ acc.panicked
  THEN acc
  ELSE LET piece == t.pieces[i + 1]
           prev_len == len
           new_len == len + piece.length
       IN SliceScan(t, i + 1, new_len, lower, upper,
                    PushStr(acc, Source(t, piece),
                            SliceCapture(piece, prev_len, new_len, lower, upper)))

_slice(t, lower, upper) ==
  IF ~SliceGuard(t, lower, upper)
  THEN [out |-> <<>>, panicked |-> TRUE]
  ELSE SliceScan(t, 0, 0, lower, upper, [out |-> <<>>, panicked |-> FALSE])

\* (mutant) the empty document is sliced like any other.
to_string_AlwaysSlice(t) == _slice(t, 0, t.total_length)

\* impl Display for PieceTable
to_string(t) ==
  IF t.total_length = 0
  THEN [out |-> <<>>, panicked |-> FALSE]
  ELSE _slice(t, 0, t.total_length)

\* len()
len(t) == t.total_length

\* -- PieceTableSlice --------------------------------------------------------
\* slice(start..end)
slice_range(t, start, end) == _slice(t, start, end)

\* (mutant) the largest usize is incremented like any other bound.
InclusiveUpper_NoMaxCheck(end) == [upper |-> Wrap(end + 1), panicked |-> FALSE]

\* The exclusive bound of an inclusive range: asserted not to be the largest
\* usize, then incremented.
InclusiveUpper(end) ==
  IF end = UsizeMax
  THEN [upper |-> end, panicked |-> TRUE]
  ELSE [upper |-> Wrap(end + 1), panicked |-> FALSE]

\* slice(start..=end)
slice_range_inclusive(t, start, end) ==
  IF InclusiveUpper(end).panicked
  THEN [out |-> <<>>, panicked |-> TRUE]
  ELSE slice_range(t, start, InclusiveUpper(end).upper)

\* slice(..=end)
slice_range_to_inclusive(t, end) ==
  IF InclusiveUpper(end).panicked
  THEN [out |-> <<>>, panicked |-> TRUE]
  ELSE slice_range(t, 0, InclusiveUpper(end).upper)

\* ------------------------------------------------------------------- state
VARIABLES
  original,      \* PieceTable.original
  addition,      \* PieceTable.addition
  pieces,        \* PieceTable.pieces
  total_length,  \* PieceTable.total_length
  history,       \* PieceTable.history (changes, head)
  last,          \* the call made last: name, arguments, outcome, table before it
  streak,        \* the current run of undo calls followed by hot_redo calls
  left,          \* the entry the last undo left, until the next undo or hot_redo
  made           \* per history entry, the pieces and length when it was created

vars == <<original, addition, pieces, total_length, history, last, streak, left,
          made>>

\* The table as one value.
Self ==
  [original |-> original, addition |-> addition, pieces |-> pieces,
   total_length |-> total_length, history |-> history]

\* The pieces and the length of a table.
Doc(t) == [pieces |-> t.pieces, total_length |-> t.total_length]

\* The table becomes t; an entry added to the arena is noted with the pieces
\* and the length of t.
Becomes(t) ==
  /\ original' = t.original
  /\ addition' = t.addition
  /\ pieces' = t.pieces
  /\ total_length' = t.total_length
  /\ history' = t.history
  /\ made' = IF Len(t.history.changes) > Len(history.changes)
             THEN Append(made, Doc(t))
             ELSE made

\* The record of a call: its name, whether it panicked, the table it was
\* made on and, when it returned, its arguments.
Call(op, pos, n, string, panicked, pre) ==
  IF panicked
  THEN [op |-> op, pos |-> 0, n |-> 0, string |-> <<>>, panicked |-> TRUE,
        pre |-> pre]
  ELSE [op |-> op, pos |-> pos, n |-> n, string |-> string, panicked |-> FALSE,
        pre |-> pre]

\* No entry was left by an undo since the last undo or hot_redo call.
NoLeft == [entry |-> None, edited |-> FALSE]

\* A successful edit after the undo is remembered.
Edited(panicked) ==
  IF left.entry # None /\ ~panicked THEN [left EXCEPT !.edited = TRUE] ELSE left

NoStreak == [undos |-> 0, redos |-> 0, start |-> "none", base |-> from(<<>>)]

Init ==
  \E text \in OriginalTexts :
    /\ original = from(text).original
    /\ addition = from(text).addition
    /\ pieces = from(text).pieces
    /\ total_length = from(text).total_length
    /\ history = from(text).history
    /\ last = Call("from", 0, 0, text, FALSE, from(text))
    /\ streak = NoStreak
    /\ left = NoLeft
    /\ made = <<Doc(from(text))>>

\* Edits stop when the arena holds MaxEntries entries.
CanEdit == Len(history.changes) < MaxEntries

Insert ==
  /\ CanEdit
  /\ \E pos \in 0..(total_length + 1), string \in Strings :
       LET r == insert(Self, pos, string)
       IN /\ Becomes(r.table)
          /\ last' = Call("insert", pos, 0, string, r.panicked, Self)
          /\ streak' = NoStreak
          /\ left' = Edited(r.panicked)

AppendCall ==
  /\ CanEdit
  /\ \E string \in Strings :
       LET r == append(Self, string)
       IN /\ Becomes(r.table)
          /\ last' = Call("append", total_length, 0, string, r.panicked, Self)
          /\ streak' = NoStreak
          /\ left' = Edited(r.panicked)

\* The arguments handed to remove: every offset and count up to one past the
\* document, and the largest usize.
RemoveArgs == (0..(total_length + 1)) \cup {UsizeMax}

Remove ==
  /\ CanEdit
  /\ \E pos \in RemoveArgs, n \in RemoveArgs :
       LET r == remove(Self, pos, n)
       IN /\ Becomes(r.table)
          /\ last' = Call("remove", pos, n, <<>>, r.panicked, Self)
          /\ streak' = NoStreak
          /\ left' = Edited(r.panicked)

\* An undo that moved head continues a run of undos or starts a new one.
Undo ==
  LET r == undo(Self)
      moved == r.table.history.head # history.head
  IN /\ Becomes(r.table)
     /\ last' = Call("undo", 0, 0, <<>>, r.panicked, Self)
     /\ streak' = IF ~moved \/ r.panicked THEN NoStreak
                  ELSE IF last.op = "undo" /\ streak.undos > 0 /\ streak.redos = 0
                  THEN [streak EXCEPT !.undos = @ + 1]
                  ELSE [undos |-> 1, redos |-> 0, start |-> last.op, base |-> Self]
     /\ left' = IF moved /\ ~r.panicked
                THEN [entry |-> history.head, edited |-> FALSE]
                ELSE NoLeft

\* A hot_redo that moved head continues the run while it has undos left.
HotRedo ==
  LET r == hot_redo(Self)
      moved == r.table.history.head # history.head
  IN /\ Becomes(r.table)
     /\ last' = Call("hot_redo", 0, 0, <<>>, r.panicked, Self)
     /\ streak' = IF moved /\ ~r.panicked /\ last.op \in {"undo", "hot_redo"}
                     /\ streak.redos < streak.undos
                  THEN [streak EXCEPT !.redos = @ + 1]
                  ELSE NoStreak
     /\ left' = NoLeft

\* The bounds handed to slice: the ends of the document, one offset inside
\* it and one past it.
SliceBounds == {0, 1, total_length, total_length + 1}

Slice ==
  \E lower \in SliceBounds, upper \in SliceBounds :
    LET r == _slice(Self, lower, upper)
    IN /\ UNCHANGED <<original, addition, pieces, total_length, history, made>>
       /\ last' = Call("slice", 0, 0, <<>>, r.panicked, Self)
       /\ streak' = NoStreak
       /\ UNCHANGED left

Next == Insert \/ AppendCall \/ Remove \/ Undo \/ HotRedo \/ Slice

Spec == Init /\ [][Next]_vars

\* The release profile.  Every call but remove computes the same without
\* overflow checks as long as no removal was let through by a wrapped
\* pos + n; the calls after such a removal are not explored.
Admitted == last.op = "remove" /\ ~last.panicked /\ last.pos + last.n > UsizeMax

RemoveRelease ==
  /\ CanEdit
  /\ \E pos \in RemoveArgs, n \in RemoveArgs :
       LET r == remove_release(Self, pos, n)
       IN /\ Becomes(r.table)
          /\ last' = Call("remove", pos, n, <<>>, r.panicked, Self)
          /\ streak' = NoStreak
          /\ left' = Edited(r.panicked)

NextRelease ==
  \/ ~Admitted /\ Insert
  \/ ~Admitted /\ AppendCall
  \/ ~Admitted /\ RemoveRelease
  \/ ~Admitted /\ Undo
  \/ ~Admitted /\ HotRedo
  \/ ~Admitted /\ Slice

SpecRelease == Init /\ [][NextRelease]_vars

\* ------------------------------------------------------- reading the model
\* The document as the concatenation of the spans of the pieces, in order.
Span(t, piece) == SubSeq(Source(t, piece), piece.offset + 1, piece.offset + piece.length)

RECURSIVE Concat(_, _)
Concat(t, k) == IF k = 0 THEN <<>> ELSE Concat(t, k - 1) \o Span(t, t.pieces[k])

Rendered(t) == Concat(t, Len(t.pieces))

RECURSIVE SumLengths(_, _)
SumLengths(ps, k) == IF k = 0 THEN 0 ELSE SumLengths(ps, k - 1) + ps[k].length

\* to_string() of a table.
Text(t) == to_string(t).out

\* A text without its characters at offsets [pos, pos + n).
Cut(text, pos, n) == SubSeq(text, 1, pos) \o SubSeq(text, pos + n + 1, Len(text))

\* A text with string put in at offset pos.
Paste(text, pos, string) ==
  SubSeq(text, 1, pos) \o string \o SubSeq(text, pos + 1, Len(text))

\* The arguments insert and remove accept in the current state.
ValidInserts == {a \in (0..total_length) \X (Strings \ {<<>>}) : TRUE}
ValidRemoves ==
  {a \in (0..total_length) \X (1..total_length) : a[1] + a[2] <= total_length}

\* The commit that led to the head entry.
HeadCommit == history.changes[history.head + 1].commit

\* ------------------------------------------------------------------ claims

\* C1: after remove(pos, n) with n >= 1 and pos + n <= len(), to_string() is
\* the previous to_string() without the characters at offsets [pos, pos + n).
C1_RemoveCutsText ==
  (last.op = "remove" /\ ~last.panicked)
    => Text(Self) = Cut(Text(last.pre), last.pos, last.n)

\* C2: after insert(pos, s) with pos <= len() and s not empty, to_string() is
\* the previous text with s put in at pos, and len() has grown by len(s).
C2_InsertPastesText ==
  \A a \in ValidInserts :
    LET r == insert(Self, a[1], a[2])
    IN /\ ~r.panicked
       /\ Text(r.table) = Paste(Text(Self), a[1], a[2])
       /\ len(r.table) = len(Self) + Len(a[2])

\* An insert that split a piece has just returned.
C2_Witness ==
  /\ last.op = "insert" /\ ~last.panicked
  /\ Len(HeadCommit) = 4
  /\ Text(Self) = Paste(Text(last.pre), last.pos, last.string)

\* C3: len() equals the sum of the lengths of the pieces and the length of
\* to_string(), after any sequence of calls.
C3_LengthInvariant ==
  /\ total_length = SumLengths(pieces, Len(pieces))
  /\ ~to_string(Self).panicked
  /\ total_length = Len(Text(Self))

\* A hot_redo has replayed a commit on a document of three pieces or more.
C3_Witness ==
  /\ last.op = "hot_redo" /\ streak.redos >= 1
  /\ Len(pieces) >= 3
  /\ total_length = SumLengths(pieces, Len(pieces))

\* Two tables hold the same document: pieces, length and text.
SameDoc(t, u) ==
  /\ t.pieces = u.pieces
  /\ t.total_length = u.total_length
  /\ to_string(t) = to_string(u)

\* The entry a hot_redo from the head would move to, and its commit.
HotChild == history.changes[history.head + 1].hot_path
HotCommit == history.changes[HotChild + 1].commit

\* The number of undo steps from the head of a history to its root.
RECURSIVE Depth(_, _)
Depth(h, i) ==
  IF h.changes[i + 1].previous = None THEN 0
  ELSE 1 + Depth(h, h.changes[i + 1].previous)

\* k calls of undo, then k calls of hot_redo, on the result r of a call.
RECURSIVE UndoN(_, _)
UndoN(r, k) == IF k = 0 \/ r.panicked THEN r ELSE UndoN(undo(r.table), k - 1)

RECURSIVE RedoN(_, _)
RedoN(r, k) == IF k = 0 \/ r.panicked THEN r ELSE RedoN(hot_redo(r.table), k - 1)

\* C4: insert(p, s) followed at once by undo() restores the piece sequence,
\* total_length and text that held before the insert, on every path of insert.
C4_InsertUndoRoundTrip ==
  \A a \in ValidInserts :
    LET r == insert(Self, a[1], a[2])
        u == undo(r.table)
    IN /\ ~r.panicked /\ ~u.panicked
       /\ SameDoc(u.table, Self)

\* An undo has just reverted an insert that had split a piece.
C4_Witness ==
  /\ last.op = "undo" /\ ~last.panicked
  /\ streak.undos = 1 /\ streak.start = "insert"
  /\ HotChild # None /\ Len(HotCommit) = 4
  /\ Len(pieces) + 2 = Len(last.pre.pieces)

\* C5: remove(p, n) followed at once by undo() restores the piece sequence,
\* total_length and text that held before the removal, whichever pieces the
\* removal touched.
C5_RemoveUndoRoundTrip ==
  \A a \in ValidRemoves :
    LET r == remove(Self, a[1], a[2])
        u == undo(r.table)
    IN /\ ~r.panicked /\ ~u.panicked
       /\ SameDoc(u.table, Self)

\* An undo has just reverted a removal that ran over three pieces
\* (Start, Full, End: five changes).
C5_Witness ==
  /\ last.op = "undo" /\ ~last.panicked
  /\ streak.undos = 1 /\ streak.start = "remove"
  /\ HotChild # None /\ Len(HotCommit) = 5
  /\ Len(pieces) = Len(last.pre.pieces) + 1

\* C6: with head not the root, undo() followed at once by hot_redo() returns
\* head to the same entry and reproduces pieces, total_length and text.
C6_UndoRedoInverse ==
  history.changes[history.head + 1].previous # None =>
    LET u == undo(Self)
        r == hot_redo(u.table)
    IN /\ ~u.panicked /\ ~r.panicked
       /\ u.table.history.head # history.head
       /\ r.table.history.head = history.head
       /\ SameDoc(r.table, Self)

\* A hot_redo has just replayed the commit of a removal whose changes are
\* recorded from the highest piece index down.
C6_Witness ==
  /\ last.op = "hot_redo" /\ ~last.panicked
  /\ streak.undos = 1 /\ streak.redos = 1
  /\ Len(HeadCommit) >= 3
  /\ HeadCommit[1].pos > HeadCommit[Len(HeadCommit)].pos
  /\ SameDoc(Self, streak.base)

\* C7 as stated: after an undo that moved head from c to its parent, the
\* next hot_redo, with no undo in between, moves head back to c.
C7_NextRedoResumesLeft ==
  [][(last'.op = "hot_redo" /\ left.entry # None)
       => history'.head = left.entry]_vars

\* C7 as amended: after an undo that moved head from c to its parent, the
\* next hot_redo, with no undo and no successful edit in between, moves head
\* back to c and replays the commit of c, however many children the parent
\* has.
C7_RedoResumesLeftAtParent ==
  [][(last'.op = "hot_redo" /\ left.entry # None /\ ~left.edited)
       => /\ ~last'.panicked
          /\ history'.head = left.entry
          /\ History_hot_redo(history).commit
               = history.changes[left.entry + 1].commit
          /\ pieces' = RedoReplay(Ok(Self), history.changes[left.entry + 1].commit,
                                  1).table.pieces]_vars

\* A hot_redo has just returned to the younger of two branches.
C7_Witness ==
  /\ last.op = "hot_redo" /\ ~last.panicked
  /\ streak.redos >= 1
  /\ last.pre.history.head # history.head
  /\ Len(last.pre.history.changes[last.pre.history.head + 1].next) >= 2
  /\ history.head # last.pre.history.changes[last.pre.history.head + 1].next[1]

\* C8: with head at depth d and k <= d, k calls of undo() followed by k
\* calls of hot_redo() restore head, pieces, total_length and text.
C8_UndoRedoChain ==
  \A k \in 1..Depth(history, history.head) :
    LET u == UndoN(Ok(Self), k)
        r == RedoN(u, k)
    IN /\ ~u.panicked /\ ~r.panicked
       /\ Depth(u.table.history, u.table.history.head)
            = Depth(history, history.head) - k
       /\ r.table.history.head = history.head
       /\ SameDoc(r.table, Self)

\* Two undos and then two hot_redos have just run.
C8_Witness ==
  /\ last.op = "hot_redo" /\ ~last.panicked
  /\ streak.undos = 2 /\ streak.redos = 2
  /\ history.head = streak.base.history.head
  /\ SameDoc(Self, streak.base)

\* C9: for all 0 <= i < j <= len(), slice(i, j) is the text at offsets
\* [i, j) of the concatenation of the spans of the pieces.
C9_SliceConsistency ==
  \A i \in 0..total_length, j \in 0..total_length :
    i < j =>
      LET r == _slice(Self, i, j)
      IN /\ ~r.panicked
         /\ r.out = SubSeq(Rendered(Self), i + 1, j)

\* A slice has just returned on a document of three pieces or more.
C9_Witness ==
  /\ last.op = "slice" /\ ~last.panicked
  /\ Len(pieces) >= 3
  /\ Text(Self) = Rendered(Self)

\* C10: insert(pos, text) with pos > len() or with an empty text fails and
\* leaves the logs, the pieces, total_length and the history unchanged.
C10_InsertRejects ==
  \A pos \in 0..(total_length + 2), string \in Strings :
    (pos > total_length \/ string = <<>>)
      => insert(Self, pos, string) = Panic(Self)

\* A refused insert has just returned on a table with a history.
C10_Witness ==
  /\ last.op = "insert" /\ last.panicked
  /\ Len(history.changes) >= 2
  /\ Self = last.pre

\* C11: remove(pos, n) with n = 0 or pos + n > len() fails, and a failed
\* remove leaves the logs, the pieces, total_length and the history as they
\* were: a remove that returned had n >= 1 and pos + n <= len().
C11_RemoveRejects ==
  last.op = "remove" =>
    IF last.panicked
    THEN Self = last.pre
    ELSE last.n # 0 /\ last.pos + last.n <= len(last.pre)

\* C12: slice(lower, upper) fails whenever lower >= upper or upper > len(),
\* so every slice of an empty document fails, and returns for every
\* 0 <= lower < upper <= len().
C12_SliceGuards ==
  \A lower \in (0..(total_length + 2)) \cup {UsizeMax},
     upper \in (0..(total_length + 2)) \cup {UsizeMax} :
    _slice(Self, lower, upper).panicked
      <=> (lower >= upper \/ upper > total_length)

\* A slice has just been refused on a document emptied by a removal.
C12_Witness ==
  /\ last.op = "slice" /\ last.panicked
  /\ total_length = 0 /\ pieces = <<>>
  /\ Len(history.changes) >= 2
  /\ \A upper \in 0..2 : _slice(Self, 0, upper).panicked

\* C13: undo() with head at the root changes nothing: head stays at the
\* root, no hot pointer is written, and pieces, total_length, the logs and
\* the entries are as before, however often it is repeated.
C13_UndoAtRootNoOp ==
  history.changes[history.head + 1].previous = None =>
    /\ history.head = 0
    /\ undo(Self) = Ok(Self)
    /\ UndoN(Ok(Self), 3) = Ok(Self)

\* An undo has just returned at a root that has children and a hot child.
C13_Witness ==
  /\ last.op = "undo" /\ ~last.panicked
  /\ last.pre.history.head = 0
  /\ Len(history.changes[1].next) >= 1
  /\ history.changes[1].hot_path # None
  /\ Self = last.pre

\* C14: hot_redo() with no hot child at the head changes neither head, nor
\* the history, nor pieces, nor total_length; so it is on a fresh table and
\* right after any successful insert, append or remove.
C14_HotRedoNoHotChildNoOp ==
  /\ HotChild = None => hot_redo(Self) = Ok(Self)
  /\ \A a \in ValidInserts :
       LET r == insert(Self, a[1], a[2])
       IN ~r.panicked /\ hot_redo(r.table) = Ok(r.table)
  /\ \A string \in Strings \ {<<>>} :
       LET r == append(Self, string)
       IN ~r.panicked /\ hot_redo(r.table) = Ok(r.table)
  /\ \A a \in ValidRemoves :
       LET r == remove(Self, a[1], a[2])
       IN ~r.panicked /\ hot_redo(r.table) = Ok(r.table)

\* A hot_redo has just returned at a new leaf whose parent has an older
\* branch as its hot child.
C14_Witness ==
  /\ last.op = "hot_redo" /\ ~last.panicked
  /\ HotChild = None
  /\ history.changes[history.head + 1].previous # None
  /\ history.changes[history.changes[history.head + 1].previous + 1].hot_path
       \notin {None, history.head}
  /\ HeadCommit # <<>>
  /\ Self = last.pre

\* The history g is the history h after one save at the head of h: one
\* entry more, at the end, child of the old head and new head; every other
\* entry, and the other fields of the old head, as before.
SavedOnce(h, g) ==
  LET new == Len(h.changes)
  IN /\ Len(g.changes) = Len(h.changes) + 1
     /\ g.head = new
     /\ g.changes[new + 1].previous = h.head
     /\ g.changes[new + 1].next = <<>>
     /\ g.changes[h.head + 1]
          = [h.changes[h.head + 1] EXCEPT !.next = Append(@, new)]
     /\ \A i \in 1..Len(h.changes) :
          i # h.head + 1 => g.changes[i] = h.changes[i]

\* C15: every successful insert, append or remove adds exactly one entry at
\* the end of the arena, child of the previous head and new head, also when
\* the previous head already has children; the older branches are kept.
C15_EditSavesOneEntry ==
  /\ \A a \in ValidInserts :
       SavedOnce(history, insert(Self, a[1], a[2]).table.history)
  /\ \A string \in Strings \ {<<>>} :
       SavedOnce(history, append(Self, string).table.history)
  /\ \A a \in ValidRemoves :
       SavedOnce(history, remove(Self, a[1], a[2]).table.history)

\* An edit made after an undo has just added a second branch.
C15_Witness ==
  /\ last.op \in {"insert", "append", "remove"} /\ ~last.panicked
  /\ Len(last.pre.history.changes[last.pre.history.head + 1].next) >= 1
  /\ SavedOnce(last.pre.history, history)
  /\ Len(history.changes[last.pre.history.head + 1].next) >= 2

\* An entry of h is found in g at the same index with the same parent and
\* commit.
Grown(h, g) ==
  /\ Len(g.changes) >= Len(h.changes)
  /\ \A i \in 1..Len(h.changes) :
       /\ g.changes[i].previous = h.changes[i].previous
       /\ g.changes[i].commit = h.changes[i].commit

\* C16: no call removes or reorders an entry of the history; undo() and
\* hot_redo() keep the number of entries; the parent and the commit of an
\* entry stay what they were when it was created.
C16_HistoryOnlyGrows ==
  /\ \A pos \in 0..(total_length + 1), string \in Strings :
       Grown(history, insert(Self, pos, string).table.history)
  /\ \A string \in Strings :
       Grown(history, append(Self, string).table.history)
  /\ \A pos \in RemoveArgs, n \in RemoveArgs :
       Grown(history, remove(Self, pos, n).table.history)
  /\ Grown(history, undo(Self).table.history)
  /\ Len(undo(Self).table.history.changes) = Len(history.changes)
  /\ Grown(history, hot_redo(Self).table.history)
  /\ Len(hot_redo(Self).table.history.changes) = Len(history.changes)

\* An edit has just been saved next to an older branch, whose entry is
\* still in the arena with its commit.
C16_Witness ==
  /\ last.op \in {"insert", "append", "remove"} /\ ~last.panicked
  /\ Len(history.changes) = 3
  /\ history.changes[2].previous = 0 /\ history.changes[3].previous = 0
  /\ history.changes[2].commit # <<>>
  /\ Grown(last.pre.history, history)

\* The table u has the logs of the table t.
SameLogs(t, u) == u.original = t.original /\ u.addition = t.addition

\* C17: the original log never changes, and the addition log only grows at
\* its end: a successful insert or append adds exactly its text there, and
\* a refused one, remove, undo(), hot_redo() and slice leave both logs as
\* they were (the text of an undone insertion stays in the addition log).
C17_LogsAppendOnly ==
  /\ \A pos \in 0..(total_length + 1), string \in Strings :
       LET r == insert(Self, pos, string)
       IN /\ r.table.original = original
          /\ r.table.addition = IF r.panicked THEN addition ELSE addition \o string
  /\ \A string \in Strings :
       LET r == append(Self, string)
       IN /\ r.table.original = original
          /\ r.table.addition = IF r.panicked THEN addition ELSE addition \o string
  /\ \A pos \in RemoveArgs, n \in RemoveArgs :
       SameLogs(Self, remove(Self, pos, n).table)
  /\ SameLogs(Self, undo(Self).table)
  /\ SameLogs(Self, hot_redo(Self).table)
  /\ last.op = "slice" => SameLogs(last.pre, Self)
  /\ original \in OriginalTexts

\* An undo has just reverted an insert: no piece reads the addition log,
\* which still holds the inserted text.
C17_Witness ==
  /\ last.op = "undo" /\ ~last.panicked
  /\ streak.undos = 1 /\ streak.start = "insert"
  /\ addition # <<>> /\ addition = last.pre.addition
  /\ \A i \in 1..Len(pieces) : pieces[i].source = "Original"
  /\ original # <<>>

\* A piece lies within the log it references.
PieceInBounds(t, piece) == piece.offset + piece.length <= Len(Source(t, piece))

\* Every piece of the sequence and of every commit of the history lies
\* within its log.
AllInBounds(t) ==
  /\ \A i \in 1..Len(t.pieces) : PieceInBounds(t, t.pieces[i])
  /\ \A e \in 1..Len(t.history.changes) :
       \A c \in 1..Len(t.history.changes[e].commit) :
         PieceInBounds(t, t.history.changes[e].commit[c].piece)

\* C18: in every reachable state every piece of the piece sequence and
\* every piece recorded in a commit of the history has
\* offset + length <= the length of the log it references; so it is after
\* one more valid edit, undo() or hot_redo().
C18_PieceBounds ==
  /\ AllInBounds(Self)
  /\ \A a \in ValidInserts : AllInBounds(insert(Self, a[1], a[2]).table)
  /\ \A a \in ValidRemoves : AllInBounds(remove(Self, a[1], a[2]).table)
  /\ AllInBounds(undo(Self).table)
  /\ AllInBounds(hot_redo(Self).table)

\* A removal from the inside of a piece that does not start at the start of
\* its log has just returned (the Slice case: three changes).
C18_Witness ==
  /\ last.op = "remove" /\ ~last.panicked
  /\ Len(HeadCommit) = 3
  /\ HeadCommit[1].typ = "Deletion" /\ HeadCommit[1].piece.offset > 0
  /\ HeadCommit[3].piece.length >= 1
  /\ AllInBounds(Self)

\* The number of times x occurs in the sequence v.
Occurrences(v, x) == Cardinality({i \in 1..Len(v) : v[i] = x})

\* head is an entry; entry 0 has no parent; every other entry has a parent
\* that is an entry and lists it once among its children; a hot child is
\* one of the children.
WellFormed(h) ==
  /\ h.head \in 0..(Len(h.changes) - 1)
  /\ h.changes[1].previous = None
  /\ \A i \in 1..(Len(h.changes) - 1) :
       /\ h.changes[i + 1].previous \in 0..(Len(h.changes) - 1)
       /\ Occurrences(h.changes[h.changes[i + 1].previous + 1].next, i) = 1
  /\ \A i \in 0..(Len(h.changes) - 1) :
       h.changes[i + 1].hot_path # None
         => Contains(h.changes[i + 1].next, h.changes[i + 1].hot_path)

\* C19: in every reachable state the history is well formed; so it is after
\* one more valid edit, undo() or hot_redo().
C19_HistoryStructure ==
  /\ WellFormed(history)
  /\ \A a \in ValidInserts : WellFormed(insert(Self, a[1], a[2]).table.history)
  /\ \A a \in ValidRemoves : WellFormed(remove(Self, a[1], a[2]).table.history)
  /\ WellFormed(undo(Self).table.history)
  /\ WellFormed(hot_redo(Self).table.history)

\* An edit has just given the root a second child: the older one is the hot
\* child of the root, and head is at the younger one.
C19_Witness ==
  /\ last.op \in {"insert", "append", "remove"} /\ ~last.panicked
  /\ Len(history.changes) = 3
  /\ history.changes[1].next = <<1, 2>>
  /\ history.changes[1].hot_path = 1
  /\ history.head = 2
  /\ WellFormed(history)

\* No Deletion change comes after an Insertion change in a commit.
DeletionsFirst(commit) ==
  \A i \in 1..Len(commit), j \in 1..Len(commit) :
    (i < j /\ commit[i].typ = "Insertion") => commit[j].typ # "Deletion"

\* C20: in the commit of every insert and remove call all Deletion changes
\* come before all Insertion changes, also for a remove that touches two
\* pieces or more.
C20_DeletionsBeforeInsertions ==
  \A e \in 1..Len(history.changes) : DeletionsFirst(history.changes[e].commit)

\* C21: from(text) yields original = text, an empty addition log,
\* total_length = len(text), the one piece (Original, 0, len(text)) for a
\* text that is not empty and no piece for the empty text, and a history of
\* one root entry (no parent, no children, no hot child, empty commit) with
\* head = 0.
C21_Create ==
  last.op = "from" =>
    /\ original = last.string
    /\ addition = <<>>
    /\ total_length = Len(last.string)
    /\ pieces = IF last.string = <<>>
                THEN <<>>
                ELSE <<[source |-> "Original", offset |-> 0,
                        length |-> Len(last.string)]>>
    /\ history = [changes |-> <<[previous |-> None, next |-> <<>>,
                                 hot_path |-> None, commit |-> <<>>]>>,
                  head |-> 0]

\* A table has just been made from a text that is not empty.
C21_Witness ==
  /\ last.op = "from" /\ last.string # <<>>
  /\ original = last.string
  /\ Len(pieces) = 1 /\ pieces[1].length = Len(last.string)
  /\ Len(history.changes) = 1

\* to_string() of a table returns: the empty text for an empty document,
\* where slice(0, 0) would fail, and slice(0, total_length) otherwise.
ToStringReturns(t) ==
  /\ ~to_string(t).panicked
  /\ t.total_length = 0 =>
       to_string(t).out = <<>> /\ _slice(t, 0, t.total_length).panicked
  /\ t.total_length # 0 => to_string(t) = _slice(t, 0, t.total_length)

\* C22: to_string() fails in no reachable state: it returns the empty text
\* when total_length = 0 and slice(0, total_length) otherwise; so it does
\* after one more valid edit, undo() or hot_redo().
C22_ToStringNeverFails ==
  /\ ToStringReturns(Self)
  /\ \A a \in ValidInserts : ToStringReturns(insert(Self, a[1], a[2]).table)
  /\ \A a \in ValidRemoves : ToStringReturns(remove(Self, a[1], a[2]).table)
  /\ ToStringReturns(undo(Self).table)
  /\ ToStringReturns(hot_redo(Self).table)

\* A removal has just emptied the document: to_string() returns the empty
\* text although no slice of the table returns.
C22_Witness ==
  /\ last.op = "remove" /\ ~last.panicked
  /\ last.pre.total_length > 0 /\ total_length = 0
  /\ to_string(Self) = [out |-> <<>>, panicked |-> FALSE]
  /\ _slice(Self, 0, total_length).panicked

\* C23: append(text) does what insert(len(), text) does: same logs, pieces
\* (the new piece last), total_length and history; it fails exactly when
\* text is empty.
C23_AppendIsInsertAtEnd ==
  \A string \in Strings :
    LET r == append(Self, string)
        piece == [source |-> "Addition", offset |-> Len(addition),
                  length |-> Len(string)]
    IN /\ r = insert(Self, total_length, string)
       /\ r.panicked <=> string = <<>>
       /\ r.panicked => r.table = Self
       /\ ~r.panicked =>
            /\ r.table.pieces = Append(pieces, piece)
            /\ r.table.addition = addition \o string
            /\ r.table.original = original
            /\ r.table.total_length = total_length + Len(string)
            /\ SavedOnce(history, r.table.history)
            /\ r.table.history.changes[r.table.history.head + 1].commit
                 = <<[pos |-> Len(pieces), piece |-> piece, typ |-> "Insertion"]>>
            /\ Text(r.table) = Text(Self) \o string

\* An append has just put its piece behind two pieces or more.
C23_Witness ==
  /\ last.op = "append" /\ ~last.panicked
  /\ Len(last.pre.pieces) >= 2
  /\ pieces = Append(last.pre.pieces,
                      [source |-> "Addition", offset |-> Len(last.pre.addition),
                       length |-> Len(last.string)])
  /\ Self = insert(last.pre, last.pre.total_length, last.string).table

\* C24: slice(i..=j) is slice(i, j + 1) and slice(..=j) is slice(0, j + 1);
\* an inclusive upper bound equal to the largest usize is refused before
\* the increment, so j + 1 never wraps around.
C24_InclusiveRanges ==
  \A j \in (0..(total_length + 1)) \cup {UsizeMax - 1, UsizeMax} :
    /\ InclusiveUpper(j).panicked <=> j = UsizeMax
    /\ ~InclusiveUpper(j).panicked => InclusiveUpper(j).upper = j + 1
    /\ j = UsizeMax => slice_range_to_inclusive(Self, j).panicked
    /\ j # UsizeMax =>
         slice_range_to_inclusive(Self, j) = _slice(Self, 0, j + 1)
    /\ j < total_length =>
         slice_range_to_inclusive(Self, j)
           = [out |-> SubSeq(Rendered(Self), 1, j + 1), panicked |-> FALSE]
    /\ \A i \in (0..(total_length + 1)) \cup {UsizeMax} :
         /\ j = UsizeMax => slice_range_inclusive(Self, i, j).panicked
         /\ j # UsizeMax =>
              slice_range_inclusive(Self, i, j) = _slice(Self, i, j + 1)
         /\ (i <= j /\ j < total_length) =>
              slice_range_inclusive(Self, i, j)
                = [out |-> SubSeq(Rendered(Self), i + 1, j + 1),
                   panicked |-> FALSE]

\* A slice has just returned on a document of three pieces or more, whose
\* last character is slice(len() - 1..=len() - 1).
C24_Witness ==
  /\ last.op = "slice" /\ ~last.panicked
  /\ Len(pieces) >= 3
  /\ slice_range_inclusive(Self, total_length - 1, total_length - 1)
       = [out |-> SubSeq(Text(Self), total_length, total_length),
          panicked |-> FALSE]
  /\ slice_range_to_inclusive(Self, total_length - 1).out = Text(Self)
  /\ slice_range_to_inclusive(Self, UsizeMax).panicked

\* The last call was a remove whose window lay strictly inside one piece:
\* its commit is a Deletion followed by two Insertions.
SliceCaseRemoved ==
  /\ last.op = "remove" /\ ~last.panicked
  /\ Len(HeadCommit) = 3
  /\ HeadCommit[1].typ = "Deletion"
  /\ HeadCommit[2].typ = "Insertion"
  /\ HeadCommit[3].typ = "Insertion"

\* C25: in the Slice case of remove, with the window starting at local
\* offset k of the piece P = (src, off, len), P is replaced in place by
\* (src, off, k) and followed by (src, off + k + n, len - k - n), the part
\* of P after the window, whatever off is.
C25_SliceArmRemainders ==
  SliceCaseRemoved =>
    LET idx == HeadCommit[1].pos
        P == last.pre.pieces[idx + 1]
        k == last.pos - SumLengths(last.pre.pieces, idx)
    IN /\ k > 0
       /\ HeadCommit[1].piece = P
       /\ pieces[idx + 1] = [source |-> P.source, offset |-> P.offset,
                             length |-> k]
       /\ pieces[idx + 2] = [source |-> P.source,
                             offset |-> P.offset + k + last.n,
                             length |-> P.length - k - last.n]

\* The text offset at which piece number idx (from 0) of a sequence starts.
StartOf(ps, idx) == SumLengths(ps, idx)

\* The text offsets at which a piece of the sequence starts or the last
\* one ends.
Boundaries(ps) == {StartOf(ps, i) : i \in 0..Len(ps)}

\* The index of the piece that holds the text offset pos strictly inside.
Holder(ps, pos) ==
  CHOOSE i \in 0..(Len(ps) - 1) : StartOf(ps, i) < pos /\ pos < StartOf(ps, i + 1)

\* The piece a valid insert of string makes on the table t.
NewPiece(t, string) ==
  [source |-> "Addition", offset |-> Len(t.addition), length |-> Len(string)]

\* C26: an insert at an offset strictly inside the piece P = (src, off, len)
\* at index idx, at local offset k, leaves (src, off, k) at idx, the new
\* piece at idx + 1 and (src, off + k, len - k) at idx + 2, every other
\* piece as it was, and the commit Deletion(idx, P), Insertion(idx, shrunk),
\* Insertion(idx + 1, new), Insertion(idx + 2, trailing).
C26_InsertSplit ==
  \A a \in ValidInserts :
    a[1] \notin Boundaries(pieces) =>
      LET r == insert(Self, a[1], a[2])
          idx == Holder(pieces, a[1])
          P == pieces[idx + 1]
          k == a[1] - StartOf(pieces, idx)
          shrunk == [source |-> P.source, offset |-> P.offset, length |-> k]
          new == NewPiece(Self, a[2])
          trailing == [source |-> P.source, offset |-> P.offset + k,
                       length |-> P.length - k]
      IN /\ ~r.panicked
         /\ 0 < k /\ k < P.length
         /\ r.table.pieces
              = SubSeq(pieces, 1, idx) \o <<shrunk, new, trailing>>
                  \o SubSeq(pieces, idx + 2, Len(pieces))
         /\ r.table.history.changes[r.table.history.head + 1].commit
              = <<[pos |-> idx, piece |-> P, typ |-> "Deletion"],
                  [pos |-> idx, piece |-> shrunk, typ |-> "Insertion"],
                  [pos |-> idx + 1, piece |-> new, typ |-> "Insertion"],
                  [pos |-> idx + 2, piece |-> trailing, typ |-> "Insertion"]>>

\* An insert has just split a piece that is neither the first piece nor at
\* the start of its log.
C26_Witness ==
  /\ last.op = "insert" /\ ~last.panicked
  /\ last.pos \notin Boundaries(last.pre.pieces)
  /\ Len(HeadCommit) = 4
  /\ HeadCommit[1].pos >= 1 /\ HeadCommit[1].piece.offset > 0
  /\ Len(pieces) = Len(last.pre.pieces) + 2

\* The index at which an insert at the piece boundary pos places its piece:
\* the start, the end, or the index of the piece that starts at pos.
BoundaryIdx(ps, pos) ==
  IF pos = 0 THEN 0
  ELSE IF pos = StartOf(ps, Len(ps)) THEN Len(ps)
  ELSE CHOOSE i \in 1..(Len(ps) - 1) : StartOf(ps, i) = pos

\* C27: an insert at offset 0, at len() or on the boundary between two
\* pieces changes no existing piece: the new piece is put at the start, at
\* the end or right before the piece that starts at pos, the number of
\* pieces grows by one, and the commit is one Insertion at that index.
C27_InsertAtBoundary ==
  \A a \in ValidInserts :
    a[1] \in Boundaries(pieces) =>
      LET r == insert(Self, a[1], a[2])
          idx == BoundaryIdx(pieces, a[1])
          new == NewPiece(Self, a[2])
      IN /\ ~r.panicked
         /\ Len(r.table.pieces) = Len(pieces) + 1
         /\ r.table.pieces
              = SubSeq(pieces, 1, idx) \o <<new>>
                  \o SubSeq(pieces, idx + 1, Len(pieces))
         /\ r.table.history.changes[r.table.history.head + 1].commit
              = <<[pos |-> idx, piece |-> new, typ |-> "Insertion"]>>

\* An insert has just put its piece between two pieces.
C27_Witness ==
  /\ last.op = "insert" /\ ~last.panicked
  /\ last.pos \in Boundaries(last.pre.pieces)
  /\ last.pos \notin {0, last.pre.total_length}
  /\ Len(HeadCommit) = 1
  /\ HeadCommit[1].pos \in 1..(Len(last.pre.pieces) - 1)
  /\ pieces[HeadCommit[1].pos + 2] = last.pre.pieces[HeadCommit[1].pos + 1]

\* What is left of the piece p spanning the text offsets [s, e) after the
\* window [pos, end) is removed, and the changes recorded at its index i:
\* a piece outside the window stays, a piece inside goes with one Deletion,
\* a piece whose tail is in the window is shortened, a piece whose head is
\* in the window is shortened and starts later.  A piece that holds the
\* window strictly inside is not described here (slice).
Remainder(p, i, s, e, pos, end) ==
  IF e <= pos \/ s >= end
  THEN [kind |-> "outside", pieces |-> <<p>>, changes |-> <<>>]
  ELSE IF pos <= s /\ e <= end
  THEN [kind |-> "inside", pieces |-> <<>>,
        changes |-> <<[pos |-> i, piece |-> p, typ |-> "Deletion"]>>]
  ELSE IF s < pos /\ e <= end
  THEN LET q == [p EXCEPT !.length = pos - s]
       IN [kind |-> "tail", pieces |-> <<q>>,
           changes |-> <<[pos |-> i, piece |-> p, typ |-> "Deletion"],
                         [pos |-> i, piece |-> q, typ |-> "Insertion"]>>]
  ELSE IF pos <= s /\ end < e
  THEN LET q == [p EXCEPT !.offset = @ + (end - s), !.length = e - end]
       IN [kind |-> "head", pieces |-> <<q>>,
           changes |-> <<[pos |-> i, piece |-> p, typ |-> "Deletion"],
                         [pos |-> i, piece |-> q, typ |-> "Insertion"]>>]
  ELSE [kind |-> "slice", pieces |-> <<>>, changes |-> <<>>]

RemainderOf(ps, i, pos, end) ==
  Remainder(ps[i + 1], i, StartOf(ps, i), StartOf(ps, i + 1), pos, end)

\* The remainders of the first k pieces, in order.
RECURSIVE Remainders(_, _, _, _)
Remainders(ps, k, pos, end) ==
  IF k = 0 THEN <<>>
  ELSE Remainders(ps, k - 1, pos, end) \o RemainderOf(ps, k - 1, pos, end).pieces

\* The changes of a commit recorded at position i, in order.
RECURSIVE ChangesAt(_, _, _)
ChangesAt(commit, k, i) ==
  IF k = 0 THEN <<>>
  ELSE ChangesAt(commit, k - 1, i)
         \o (IF commit[k].pos = i THEN <<commit[k]>> ELSE <<>>)

\* C28: remove(pos, n) leaves the pieces outside [pos, pos + n) as they were
\* and in their order, removes each piece inside it with one Deletion and no
\* Insertion, shortens a piece whose tail is in the window, and advances the
\* offset and reduces the length of a piece whose head is in the window.
C28_RemoveFrame ==
  \A a \in ValidRemoves :
    LET pos == a[1]
        end == a[1] + a[2]
        r == remove(Self, a[1], a[2])
        commit == r.table.history.changes[r.table.history.head + 1].commit
        sliced == \E i \in 0..(Len(pieces) - 1) :
                    RemainderOf(pieces, i, pos, end).kind = "slice"
    IN /\ ~r.panicked
       /\ ~sliced =>
            /\ r.table.pieces = Remainders(pieces, Len(pieces), pos, end)
            /\ \A i \in 0..(Len(pieces) - 1) :
                 ChangesAt(commit, Len(commit), i)
                   = RemainderOf(pieces, i, pos, end).changes
       /\ sliced =>
            \E i \in 0..(Len(pieces) - 1) :
              /\ RemainderOf(pieces, i, pos, end).kind = "slice"
              /\ SubSeq(r.table.pieces, 1, i) = SubSeq(pieces, 1, i)
              /\ SubSeq(r.table.pieces, i + 3, Len(r.table.pieces))
                   = SubSeq(pieces, i + 2, Len(pieces))
              /\ Len(r.table.pieces) = Len(pieces) + 1

\* A removal has just shortened one piece at its tail, removed the next and
\* cut the head of a third.
C28_Witness ==
  /\ last.op = "remove" /\ ~last.panicked
  /\ Len(HeadCommit) = 5
  /\ Len(pieces) = Len(last.pre.pieces) - 1
  /\ \E i \in 0..(Len(last.pre.pieces) - 3) :
       /\ RemainderOf(last.pre.pieces, i, last.pos, last.pos + last.n).kind = "tail"
       /\ RemainderOf(last.pre.pieces, i + 1, last.pos, last.pos + last.n).kind
            = "inside"
       /\ RemainderOf(last.pre.pieces, i + 2, last.pos, last.pos + last.n).kind
            = "head"
       /\ pieces[i + 2].offset > last.pre.pieces[i + 3].offset

\* The commit records, for the piece old at index i, its Deletion
\* immediately followed by an Insertion at the same index.
ReplacedInPlace(commit, i, old) ==
  \E k \in 1..(Len(commit) - 1) :
    /\ commit[k] = [pos |-> i, piece |-> old, typ |-> "Deletion"]
    /\ commit[k + 1].typ = "Insertion"
    /\ commit[k + 1].pos = i

\* The commit saved by the edit with result r, replayed in recorded order
\* on the pieces of t, gives the pieces and the length of r.
ReplaysTo(t, r) ==
  LET commit == r.table.history.changes[r.table.history.head + 1].commit
      before == [r.table EXCEPT !.pieces = t.pieces,
                                !.total_length = t.total_length]
      replay == RedoReplay(Ok(before), commit, 1)
  IN /\ ~replay.panicked
     /\ replay.table.pieces = r.table.pieces
     /\ replay.table.total_length = r.table.total_length

\* C29: when an edit modifies a piece in place (the split of insert; End,
\* Start and Slice of remove) the commit has the Deletion of the old value
\* immediately followed by the Insertion of the new one at the same index,
\* and the commit replayed in recorded order on the pieces before the edit
\* uses valid indices only and gives the pieces after the edit.
C29_DeletionThenInsertionReplay ==
  /\ \A a \in ValidInserts :
       LET r == insert(Self, a[1], a[2])
           commit == r.table.history.changes[r.table.history.head + 1].commit
       IN /\ ~r.panicked
          /\ ReplaysTo(Self, r)
          /\ a[1] \notin Boundaries(pieces) =>
               ReplacedInPlace(commit, Holder(pieces, a[1]),
                               pieces[Holder(pieces, a[1]) + 1])
  /\ \A a \in ValidRemoves :
       LET r == remove(Self, a[1], a[2])
           commit == r.table.history.changes[r.table.history.head + 1].commit
       IN /\ ~r.panicked
          /\ ReplaysTo(Self, r)
          /\ \A i \in 0..(Len(pieces) - 1) :
               RemainderOf(pieces, i, a[1], a[1] + a[2]).kind
                   \in {"tail", "head", "slice"}
                 => ReplacedInPlace(commit, i, pieces[i + 1])

\* A hot_redo has just replayed the commit of a removal that shortened two
\* pieces in place, each with its Deletion followed by its Insertion.
C29_Witness ==
  /\ last.op = "hot_redo" /\ ~last.panicked
  /\ streak.undos = 1 /\ streak.redos = 1 /\ streak.start = "remove"
  /\ Len(HeadCommit) = 4
  /\ HeadCommit[1].typ = "Deletion" /\ HeadCommit[2].typ = "Insertion"
  /\ HeadCommit[3].typ = "Deletion" /\ HeadCommit[4].typ = "Insertion"
  /\ HeadCommit[1].pos = HeadCommit[2].pos
  /\ HeadCommit[3].pos = HeadCommit[4].pos
  /\ pieces = streak.base.pieces

\* Pieces that reach past the end of the log they name.
OutOfLog(t) ==
  { p \in [source : {"Original", "Addition"},
           offset : {0, 1, Len(t.original) + 1, Len(t.addition) + 1, UsizeMax},
           length : {0, 1, Len(t.original) + 1, Len(t.addition) + 1, UsizeMax}] :
      p.offset + p.length >
        (IF p.source = "Original" THEN Len(t.original) ELSE Len(t.addition)) }

\* An empty piece, inside either log.
EmptyPiece == Piece_new("Original", 0, 0)

\* Corrupt changes for a replay that starts with count pieces: taking is the
\* type whose replay removes a piece, putting the one whose replay inserts.
CorruptChanges(t, count, taking, putting) ==
  { Change_new(pos, p, typ) :
      pos \in 0..count, p \in OutOfLog(t), typ \in {taking, putting} }
  \cup { Change_new(pos, EmptyPiece, taking) : pos \in {count, count + 1, UsizeMax} }
  \cup { Change_new(pos, EmptyPiece, putting) : pos \in {count + 1, UsizeMax} }

\* The commits undo is handed: one corrupt change, or a corrupt change that
\* is reached after a sound one (undo replays from the last change back).
CorruptForUndo(t) ==
  { <<c>> : c \in CorruptChanges(t, Len(t.pieces), "Insertion", "Deletion") }
  \cup { <<c, Change_new(0, EmptyPiece, "Deletion")>> :
           c \in CorruptChanges(t, Len(t.pieces) + 1, "Insertion", "Deletion") }

\* The commits hot_redo is handed (it replays from the first change on).
CorruptForRedo(t) ==
  { <<c>> : c \in CorruptChanges(t, Len(t.pieces), "Deletion", "Insertion") }
  \cup { <<Change_new(0, EmptyPiece, "Insertion"), c>> :
           c \in CorruptChanges(t, Len(t.pieces) + 1, "Deletion", "Insertion") }

\* The table with the commit saved on top of its history, as the tests build
\* it, and the same after History.undo has stepped back from it.
WithSaved(t, commit) == [t EXCEPT !.history = History_save(@, commit).history]
WithUndone(t, commit) ==
  [t EXCEPT !.history = History_undo(History_save(@, commit).history).history]

\* Arenas that are empty or whose head is out of bounds.
BrokenArenas(h) ==
  { [changes |-> <<>>, head |-> 0],
    [h EXCEPT !.head = Len(h.changes)],
    [h EXCEPT !.head = UsizeMax] }

\* Arenas whose hot child is out of bounds or is no child of head.
BrokenHotPaths(h) ==
  { [h EXCEPT !.changes[h.head + 1].hot_path = j] :
      j \in { i \in 0..(Len(h.changes) + 1) :
                i >= Len(h.changes) \/ ~Contains(h.changes[h.head + 1].next, i) } }

\* C30: undo() and hot_redo() fail fatally on a corrupt commit (a piece
\* reaching past its log, a removal at a position >= the piece count, an
\* insertion at a position > the piece count); History.save, undo and
\* hot_redo fail on an empty arena or a head out of bounds; hot_redo fails
\* on a hot child that is out of bounds or is no child of head.
C30_CorruptHistoryIsFatal ==
  /\ \A commit \in CorruptForUndo(Self) :
       undo_release(WithSaved(Self, commit)).panicked
  /\ \A commit \in CorruptForRedo(Self) :
       hot_redo_release(WithUndone(Self, commit)).panicked
  /\ \A h \in BrokenArenas(history) :
       /\ History_save(h, Commit_new).panicked
       /\ History_undo(h).panicked
       /\ History_hot_redo(h).panicked
       /\ undo_release([Self EXCEPT !.history = h]).panicked
       /\ hot_redo_release([Self EXCEPT !.history = h]).panicked
  /\ \A h \in BrokenHotPaths(history) :
       /\ History_hot_redo(h).panicked
       /\ hot_redo_release([Self EXCEPT !.history = h]).panicked

\* The commit saved by the edit with result r names only positions that are
\* in range when its changes are applied in order to the pieces of t.
PositionsInRange(t, r) ==
  LET commit == r.table.history.changes[r.table.history.head + 1].commit
      before == [r.table EXCEPT !.pieces = t.pieces,
                                !.total_length = t.total_length]
  IN ~RedoReplay(Ok(before), commit, 1).panicked

\* C31: in every state reached from create(text) through insert, append and
\* remove with valid arguments and any interleaving of undo() and hot_redo(),
\* none of the assertions of History.save, undo and hot_redo and of the
\* replay loops of undo() and hot_redo() fails, and no position of the piece
\* sequence named by an edit is out of range.
C31_NoAssertionFires ==
  /\ ~History_save(history, Commit_new).panicked
  /\ ~History_undo(history).panicked
  /\ ~History_hot_redo(history).panicked
  /\ ~undo(Self).panicked
  /\ ~hot_redo(Self).panicked
  /\ \A a \in ValidInserts :
       /\ ~insert(Self, a[1], a[2]).panicked
       /\ PositionsInRange(Self, insert(Self, a[1], a[2]))
  /\ \A a \in ValidRemoves :
       /\ ~remove(Self, a[1], a[2]).panicked
       /\ PositionsInRange(Self, remove(Self, a[1], a[2]))
  /\ last.op \in {"undo", "hot_redo"} => ~last.panicked

\* A hot_redo has returned to the second of two branches made at the root:
\* both replay loops and all three History calls have run.
C31_Witness ==
  /\ last.op = "hot_redo" /\ ~last.panicked
  /\ Len(history.changes) = 3
  /\ Len(history.changes[1].next) = 2
  /\ history.head = 2
  /\ Len(HeadCommit) > 0

\* C32: the piece sequence is a function of the head entry: whenever head is
\* at an entry, however it got there, the pieces and total_length are those
\* that held when the entry was created (those of create(text) at the root).
C32_PiecesFollowHead ==
  /\ Len(made) = Len(history.changes)
  /\ made[1] = Doc(from(original))
  /\ history.head < Len(made)
  /\ Doc(Self) = made[history.head + 1]

\* Two edits were made one after the other and the second has just been
\* undone: head is back at the entry of the first, with its pieces.
C32_Witness ==
  /\ last.op = "undo" /\ ~last.panicked
  /\ Len(history.changes) = 3
  /\ history.changes[3].previous = 1
  /\ history.head = 1
  /\ made[2] # made[3] /\ made[2] # made[1]

\* C33: in every reachable state, if the head entry has a child then its hot
\* child is set and hot_redo() moves head forward to it; hot_redo() is a
\* no-op only when head is a leaf.
C33_RedoAvailableWithChildren ==
  LET r == hot_redo(Self)
      children == history.changes[history.head + 1].next
  IN /\ ~r.panicked
     /\ children # <<>> =>
          /\ HotChild # None
          /\ Contains(children, HotChild)
          /\ r.table.history.head = HotChild
          /\ r.table.history.head # history.head
     /\ children = <<>> => r.table = Self

\* Two branches were made at the root and the second has just been undone:
\* the root has two children and its hot child is the second.
C33_Witness ==
  /\ last.op = "undo" /\ ~last.panicked
  /\ history.head = 0
  /\ Len(history.changes[1].next) = 2
  /\ HotChild = 2
  /\ hot_redo(Self).table.history.head = 2

\* The hot pointers of the entries of h are the same in g, and the entries
\* g has beyond those of h have none.
SameHotPaths(h, g) ==
  /\ Len(g.changes) >= Len(h.changes)
  /\ \A i \in 1..Len(g.changes) :
       g.changes[i].hot_path =
         (IF i <= Len(h.changes) THEN h.changes[i].hot_path ELSE None)

\* C34: only undo() writes hot pointers.  A successful insert, append or
\* remove and a hot_redo() leave every hot child as it was; after an edit A,
\* an undo and an edit B the hot child of the branch entry is still A's
\* entry while head is B's, and it becomes B's entry when B is undone.
C34_OnlyUndoWritesHot ==
  /\ \A a \in ValidInserts :
       SameHotPaths(history, insert(Self, a[1], a[2]).table.history)
  /\ \A string \in Strings \ {<<>>} :
       SameHotPaths(history, append(Self, string).table.history)
  /\ \A a \in ValidRemoves :
       SameHotPaths(history, remove(Self, a[1], a[2]).table.history)
  /\ SameHotPaths(history, hot_redo(Self).table.history)
  /\ (left.entry # None /\ left.edited) =>
       history.changes[history.changes[left.entry + 1].previous + 1].hot_path
         = left.entry
  /\ history.changes[history.head + 1].previous # None =>
       LET parent == history.changes[history.head + 1].previous
       IN undo(Self).table.history.changes[parent + 1].hot_path = history.head

\* Edit A was undone and edit B has just been made from the same entry:
\* head is B's entry and the hot child of the root is A's entry.
C34_Witness ==
  /\ last.op \in {"insert", "append", "remove"} /\ ~last.panicked
  /\ left.entry = 1 /\ left.edited
  /\ history.head = 2
  /\ history.changes[3].previous = 0
  /\ history.changes[1].hot_path = 1

\* Every parent index is below the index of its entry and every hot child
\* index is above the index of its owner.
IndicesOrdered(h) ==
  \A i \in 0..(Len(h.changes) - 1) :
    /\ h.changes[i + 1].previous # None => h.changes[i + 1].previous < i
    /\ h.changes[i + 1].hot_path # None => h.changes[i + 1].hot_path > i

\* C35: parents have smaller indices and hot children greater ones, so
\* repeated undo() reaches the root after exactly as many calls as the depth
\* of head, repeated hot_redo() reaches a leaf after at most as many calls as
\* there are entries after head, and further calls change nothing.
C35_ChainsTerminate ==
  /\ IndicesOrdered(history)
  /\ LET d == Depth(history, history.head)
         atRoot == UndoN(Ok(Self), d)
     IN /\ ~atRoot.panicked
        /\ atRoot.table.history.head = 0
        /\ \A k \in 0..(d - 1) : UndoN(Ok(Self), k).table.history.head # 0
        /\ undo(atRoot.table) = atRoot
  /\ LET atLeaf == RedoN(Ok(Self), Len(history.changes) - 1 - history.head)
         leaf == atLeaf.table.history.head
     IN /\ ~atLeaf.panicked
        /\ atLeaf.table.history.changes[leaf + 1].next = <<>>
        /\ hot_redo(atLeaf.table) = atLeaf

\* Two undos in a row have taken head from depth two to the root, and two
\* hot_redos from here end at the leaf they started from.
C35_Witness ==
  /\ last.op = "undo" /\ ~last.panicked
  /\ streak.undos = 2
  /\ Depth(streak.base.history, streak.base.history.head) = 2
  /\ history.head = 0
  /\ RedoN(Ok(Self), 2).table.history.head = 2
  /\ RedoN(Ok(Self), 1).table.history.head = 1

\* Two pieces name the same log and their ranges [offset, offset + length)
\* have an offset in common.
Overlap(p, q) ==
  /\ p.source = q.source
  /\ p.offset < q.offset + q.length
  /\ q.offset < p.offset + p.length

\* C36: in every reachable state any two distinct pieces of the sequence
\* that name the same log cover disjoint ranges of it.
C36_PiecesDisjoint ==
  \A i \in 1..Len(pieces), j \in 1..Len(pieces) :
    i # j => ~Overlap(pieces[i], pieces[j])

\* C37: remove(pos, n) is refused with the table unchanged for every pos and
\* n whose true sum pos + n exceeds len(), also when the sum exceeds the
\* largest usize: the range check cannot be passed by wrap-around of
\* end = pos + n.
C37_RemoveRangeCheckNoWrap ==
  \A pos \in 0..UsizeMax, n \in 0..UsizeMax :
    pos + n > total_length => remove_release(Self, pos, n) = Panic(Self)

\* Every piece of a sequence holds at least one character.
NoEmptyPiece(ps) == \A i \in 1..Len(ps) : ps[i].length >= 1

\* C38: in every reachable state every piece of the sequence has length >= 1
\* (insert splits strictly inside a piece, and the End, Start and Slice
\* remainders of remove are not empty), so the empty document is the empty
\* sequence.
C38_NoEmptyPiece ==
  /\ NoEmptyPiece(pieces)
  /\ total_length = 0 => pieces = <<>>
  /\ \A a \in ValidInserts : NoEmptyPiece(insert(Self, a[1], a[2]).table.pieces)
  /\ \A a \in ValidRemoves : NoEmptyPiece(remove(Self, a[1], a[2]).table.pieces)

\* A removal that ran from inside one piece to the end of the document has
\* shortened the first piece it met and taken the later ones out whole.
C38_Witness ==
  /\ last.op = "remove" /\ ~last.panicked
  /\ Len(last.pre.pieces) >= 3
  /\ Len(pieces) = 1
  /\ pieces[1].length >= 1
  /\ pieces[1].length < last.pre.pieces[1].length
  /\ last.pos + last.n = len(last.pre)

\* The way a piece spanning [s, e) of the document meets the window
\* [lo, hi): its tail is in the window (End), all of it (Full), its head
\* (Start), a part strictly inside it (Slice), or nothing of it.
OverlapCase(s, e, lo, hi) ==
  IF e <= lo \/ hi <= s THEN "none"
  ELSE IF s < lo /\ hi < e THEN "Slice"
  ELSE IF s < lo THEN "End"
  ELSE IF hi < e THEN "Start"
  ELSE "Full"

\* The classifications of a scan that name the piece at idx, and those of
\* one kind.
OfPiece(rem, idx) == SelectSeq(rem, LAMBDA r : r.idx = idx)
OfKind(rem, kind) == SelectSeq(rem, LAMBDA r : r.kind = kind)

\* The range of its log that a piece spanning [s, e) gives to the window.
Captured(piece, s, e, lo, hi) ==
  [start |-> piece.offset + (IF lo > s THEN lo - s ELSE 0),
   end |-> piece.offset + (IF hi < e THEN hi - s ELSE piece.length)]

\* C39: in the scan of remove and in the scan of slice every piece matches
\* at most one of the cases End, Full, Start and Slice, the one in which it
\* meets the window, and a piece that does not meet the window matches
\* none; one remove classifies at most one piece as End and at most one as
\* Start, and a Slice only as the single classified piece.
C39_OneCasePerPiece ==
  /\ \A a \in ValidRemoves :
       LET pos == a[1]
           end == a[1] + a[2]
           rem == RemoveScan(pieces, 0, 0, pos, end)
       IN /\ \A i \in 0..(Len(pieces) - 1) :
               LET s == StartOf(pieces, i)
                   e == s + pieces[i + 1].length
                   case == OverlapCase(s, e, pos, end)
                   mine == OfPiece(rem, i)
               IN /\ Len(mine) <= 1
                  /\ case = "none" <=> mine = <<>>
                  /\ mine # <<>> => mine[1].kind = case
          /\ Len(OfKind(rem, "End")) <= 1
          /\ Len(OfKind(rem, "Start")) <= 1
          /\ OfKind(rem, "Slice") # <<>> => Len(rem) = 1
  /\ \A lower \in 0..total_length, upper \in 0..total_length :
       lower < upper =>
         \A i \in 0..(Len(pieces) - 1) :
           LET s == StartOf(pieces, i)
               e == s + pieces[i + 1].length
               case == OverlapCase(s, e, lower, upper)
               got == SliceCapture(pieces[i + 1], s, e, lower, upper)
           IN s < upper =>
                /\ case = "none" <=> got = <<>>
                /\ case # "none" =>
                     got = <<Captured(pieces[i + 1], s, e, lower, upper)>>

\* A removal has just met three pieces: the tail of the first, all of the
\* second and the head of the third.
C39_Witness ==
  /\ last.op = "remove" /\ ~last.panicked
  /\ LET rem == RemoveScan(last.pre.pieces, 0, 0, last.pos, last.pos + last.n)
     IN /\ Len(rem) = 3
        /\ rem[1].kind = "End" /\ rem[2].kind = "Full" /\ rem[3].kind = "Start"

====
